---- MODULE Spec2Model ----
(***************************************************************************)
(* State-machine model of the MagmaConnect plugin (src/unnamed/part_002):  *)
(* the geolocation caches (nodeGeo, guildGeo, selfGeo), the nearest-node   *)
(* selection run by the patched Manager.create, the background resolution  *)
(* tasks, and the refresh timer started by load and cleared by unload.     *)
(*                                                                         *)
(* Conventions.  A coordinate is a record [lat, lon] in hundredths of a    *)
(* degree.  The JavaScript value undefined is the record `undefined`.  A   *)
(* Map is a function whose DOMAIN is the set of keys present.  Strings     *)
(* that the code parses (endpoints, region codes) are sequences of         *)
(* one-character strings.  One step of the model is one run-to-completion  *)
(* turn of the JavaScript event loop: a host call up to the point where    *)
(* it returns, or the completion of one background task.                   *)
(***************************************************************************)
EXTENDS Integers, Sequences, FiniteSets, Bags, TLC

(***************************************************************************)
(* Bounds of the model.                                                    *)
(***************************************************************************)
\* Spec: resolutions in flight for one Node Key
MaxNodeTasks == 1
\* Spec: self-location lookups in flight
MaxSelfTasks == 2
\* Spec: timers created by load that this.interval no longer refers to
MaxLeaked == 1
\* SpecSel: resolutions in flight for one Node Key
SelNodeTasks == 1
\* SpecSel: self-location lookups in flight
SelSelfTasks == 2
\* SpecDet: resolutions in flight for one Node Key
DetNodeTasks == 1
\* SpecDet: self-location lookups in flight
DetSelfTasks == 2
\* SpecOvr: resolutions in flight for one Node Key
OvrNodeTasks == 1
\* SpecOvr: self-location lookups in flight
OvrSelfTasks == 2
\* SpecOvr: refresh passes suspended at an override
OvrPasses == 1
\* the same in SpecTgt, with the getTargetForGuild calls awaiting the callback
TgtNodeTasks == 1
TgtSelfTasks == 2
TgtResolverTasks == 1
\* the same in SpecGeo
GeoNodeTasks == 1
GeoSelfTasks == 2
\* SpecPass: resolutions in flight per key, and suspended passes
PassNodeTasks == 1
PassPasses == 1
\* SpecLive: resolutions in flight per key, and self-lookups in flight
LiveNodeTasks == 1
LiveSelfTasks == 2
\* SpecOrd: resolutions in flight per key, and self-lookups in flight
OrdNodeTasks == 2
OrdSelfTasks == 2

(***************************************************************************)
(* Coordinates.                                                            *)
(***************************************************************************)
LL(la, lo) == [lat |-> la, lon |-> lo]

undefined == LL(99999, 99999)

\* answers of the geolocation providers for the three node hosts
PA == LL(0, 0)
PB == LL(0, 1000)
PB2 == LL(0, 200)
PC == LL(0, 9000)
\* answers of the geolocation providers for the bot host
PT == LL(0, 100)
PS2 == LL(0, 5000)
\* region table entries (regionToLatLon)
PIndia == LL(1908, 7288)
PJapan == LL(3568, 13969)
PParis == LL(4886, 235)
PDubai == LL(2520, 5527)

Points == <<PA, PB, PB2, PC, PT, PS2, PIndia, PJapan, PParis, PDubai>>

PointIdx(p) == CHOOSE i \in 1..Len(Points) : Points[i] = p

(***************************************************************************)
(* haversineKm, lines 248-259, with R = 6371: the value of                 *)
(*   2 * R * asin(min(1, sqrt(sin^2(dLat/2) + cos(lat1) cos(lat2)          *)
(*                                 sin^2(dLon/2))))                        *)
(* for every pair of Points, in metres (km * 1000, rounded).  The values   *)
(* were computed with IEEE doubles exactly as the code does; for these     *)
(* points the rounding keeps every <, = and > between two distances, and   *)
(* d(PT,PA) = d(PT,PB2) and d(PS2,PB) = d(PS2,PC) are exact ties.          *)
(***************************************************************************)
HavTable ==
  << <<0, 1111949, 222390, 10007543, 111195, 5559746, 8211421, 14263346, 5437663, 6557149>>,
     <<1111949, 0, 889559, 8895594, 1000754, 4447797, 7169946, 13482240, 5482353, 5609488>>,
     <<222390, 889559, 0, 9785154, 111195, 5337356, 8002442, 14112845, 5433088, 6364753>>,
     <<10007543, 8895594, 9785154, 0, 9896348, 4447797, 2826544, 6482548, 9835656, 4665581>>,
     <<111195, 1000754, 111195, 9896348, 0, 5448551, 8106896, 14188501, 5434529, 6460799>>,
     <<5559746, 4447797, 5337356, 4447797, 5448551, 0, 3275707, 9979544, 7082200, 2858807>>,
     <<8211421, 7169946, 8002442, 2826544, 8106896, 3275707, 0, 6723429, 7009352, 1935052>>,
     <<14263346, 13482240, 14112845, 6482548, 14188501, 9979544, 6723429, 0, 9712721, 7933631>>,
     <<5437663, 5482353, 5433088, 9835656, 5434529, 7082200, 7009352, 9712721, 0, 5247264>>,
     <<6557149, 5609488, 6364753, 4665581, 6460799, 2858807, 1935052, 7933631, 5247264, 0>> >>

haversineKm(a, b) == HavTable[PointIdx(a)][PointIdx(b)]

(***************************************************************************)
(* Strings the code parses, as sequences of characters.                    *)
(***************************************************************************)
Digits == {"0", "1", "2", "3", "4", "5", "6", "7", "8", "9"}

\* String.prototype.toLowerCase on the characters the model uses
LowerChar(c) ==
  CASE c = "I" -> "i"
    [] c = "N" -> "n"
    [] c = "D" -> "d"
    [] c = "A" -> "a"
    [] OTHER -> c

toLowerCase(s) == [i \in 1..Len(s) |-> LowerChar(s[i])]

SIndia == <<"i", "n", "d", "i", "a">>
SJapan == <<"j", "a", "p", "a", "n">>
SParis == <<"p", "a", "r", "i", "s">>
SDubai == <<"d", "u", "b", "a", "i">>
\* a region code that is not a key of the table
SMars == <<"m", "a", "r", "s">>

\* regionToLatLon, lines 300-338 (the entries of the table the model uses)
regionToLatLon(region) ==
  LET key == toLowerCase(region)
  IN  CASE key = SIndia -> PIndia
        [] key = SJapan -> PJapan
        [] key = SParis -> PParis
        [] key = SDubai -> PDubai
        [] OTHER -> undefined

(***************************************************************************)
(* A location given by the caller: a coordinate, [lat, lon], or a region   *)
(* wrapper, [region].  normalizeLoc, lines 265-269.                        *)
(***************************************************************************)
Region(r) == [region |-> r]

normalizeLoc(v) ==
  IF "lat" \in DOMAIN v THEN v ELSE regionToLatLon(v.region)

(***************************************************************************)
(* Replies of the geolocation providers.  fetchJson (lines 345-372)        *)
(* either rejects (timeout, HTTP status >= 400, transport error, a body    *)
(* that is not JSON) or resolves with the parsed body.  A parsed body is   *)
(* a record of the fields it has; a field the code tests with typeof is    *)
(* a typed value.                                                          *)
(***************************************************************************)
Num(n) == [t |-> "number", v |-> n]
Str(n) == [t |-> "string", v |-> n]

Rejected == [err |-> TRUE]
Json(obj) == [err |-> FALSE, data |-> obj]
\* a body that parses to a primitive that is truthy (true, 1, "x"): line 362
\* resolves with whatever JSON.parse returns
JsonTrue == [err |-> FALSE, data |-> [primitive |-> TRUE]]
IsPrimitive(data) == "primitive" \in DOMAIN data

\* bodies of ipwho.is
WhoOk(ll) == Json([success |-> TRUE, latitude |-> Num(ll.lat), longitude |-> Num(ll.lon)])
WhoNo == Json([success |-> FALSE])
WhoBad(ll) == Json([success |-> TRUE, latitude |-> Str(ll.lat), longitude |-> Num(ll.lon)])
\* bodies of ip-api.com
ApiOk(ll) == Json([status |-> "success", lat |-> Num(ll.lat), lon |-> Num(ll.lon)])
ApiNo == Json([status |-> "fail"])

PrimaryReplies(answers) ==
  {Rejected, WhoNo, JsonTrue} \cup {WhoOk(ll) : ll \in answers}
    \cup {WhoBad(ll) : ll \in answers}

SecondaryReplies(answers) ==
  {Rejected, ApiNo, JsonTrue} \cup {ApiOk(ll) : ll \in answers}

IsNumber(data, f) == f \in DOMAIN data /\ data[f].t = "number"

\* the two shape tests of geoByHost, lines 199-201
WhoShape(data) ==
  /\ "success" \in DOMAIN data
  /\ data.success
  /\ IsNumber(data, "latitude")
  /\ IsNumber(data, "longitude")

ApiShape(data) ==
  /\ "status" \in DOMAIN data
  /\ data.status = "success"
  /\ IsNumber(data, "lat")
  /\ IsNumber(data, "lon")

\* one turn of the loop of geoByHost on the reply to one url: the
\* coordinate it returns, or undefined when the loop goes on
GeoOfReply(r) ==
  IF r.err THEN undefined
  ELSE IF WhoShape(r.data) THEN LL(r.data.latitude.v, r.data.longitude.v)
  ELSE IF ApiShape(r.data) THEN LL(r.data.lat.v, r.data.lon.v)
  ELSE undefined

\* lines 199-201 applied to a primitive: the operator in throws a TypeError
Throws(r) == ~r.err /\ IsPrimitive(r.data)

\* geoByHost, lines 191-204: r1 is the reply of ipwho.is, r2 the reply of
\* ip-api.com (asked only when the first turn returned nothing).
\* queried is the number of providers asked, threw whether the call ends
\* in a rejection (ll is then what resolveNodeLocation makes of it at line
\* 182, undefined).
geoByHost(r1, r2) ==
  IF Throws(r1) THEN [ll |-> undefined, queried |-> 1, threw |-> TRUE]
  ELSE IF GeoOfReply(r1) # undefined
  THEN [ll |-> GeoOfReply(r1), queried |-> 1, threw |-> FALSE]
  ELSE IF Throws(r2) THEN [ll |-> undefined, queried |-> 2, threw |-> TRUE]
  ELSE [ll |-> GeoOfReply(r2), queried |-> 2, threw |-> FALSE]

\* getSelfLocation, lines 234-240: each reply is tested for its own
\* provider's shape only, by property reads that no body makes throw
getSelfLocation(r1, r2) ==
  IF ~r1.err /\ WhoShape(r1.data)
  THEN [ll |-> LL(r1.data.latitude.v, r1.data.longitude.v), queried |-> 1, threw |-> FALSE]
  ELSE IF ~r2.err /\ ApiShape(r2.data)
  THEN [ll |-> LL(r2.data.lat.v, r2.data.lon.v), queried |-> 2, threw |-> FALSE]
  ELSE [ll |-> undefined, queried |-> 2, threw |-> FALSE]

(***************************************************************************)
(* Node Records of the host's registry (NodeOptions: identifier, host).    *)
(***************************************************************************)
\* an identifier that is not given
NoId == "undefined"

N1 == [identifier |-> "us", host |-> "h1"]
N2 == [identifier |-> "eu", host |-> "h2"]
N3 == [identifier |-> NoId, host |-> "h3"]

NodeUniverse == {N1, N2, N3}

\* n.options.identifier ?? n.options.host, lines 134, 140, 157, 179
NodeKey(n) == IF n.identifier # NoId THEN n.identifier ELSE n.host

Keys == {NodeKey(n) : n \in NodeUniverse}

\* what the providers may answer for a host
HostAnswers(host) ==
  CASE host = "h1" -> {PA}
    [] host = "h2" -> {PB}
    [] host = "h3" -> {PC}

SelfAnswers == {PT, PS2}

Guilds == {"g1"}

\* the values the caller may give as options.nodeLocations[id]
OverrideKeys == {"us"}
OverrideValues == {PC, Region(SDubai), Region(SMars)}

(***************************************************************************)
(* Voice-session payloads (the argument of manager.updateVoiceState).  A   *)
(* payload is a record of the fields it has; guild_id and endpoint are     *)
(* typed values.                                                           *)
(***************************************************************************)
StrVal(x) == [t |-> "string", v |-> x]
NullVal == [t |-> "object", v |-> <<>>]

IsString(obj, f) == f \in DOMAIN obj /\ obj[f].t = "string"

\* obj.f as the code reads it: undefined when the field is missing
Field(obj, f) == IF f \in DOMAIN obj THEN obj[f] ELSE [t |-> "undefined", v |-> <<>>]

NoVoiceServerUpdate == [found |-> FALSE, guild_id |-> NullVal, endpoint |-> NullVal]

\* extractVoiceServerUpdate, lines 274-282
extractVoiceServerUpdate(data) ==
  IF "t" \in DOMAIN data /\ data.t = "VOICE_SERVER_UPDATE"
     /\ "d" \in DOMAIN data /\ IsString(data.d, "endpoint")
  THEN [found |-> TRUE, guild_id |-> Field(data.d, "guild_id"), endpoint |-> data.d.endpoint]
  ELSE IF IsString(data, "endpoint") /\ IsString(data, "guild_id")
  THEN [found |-> TRUE, guild_id |-> data.guild_id, endpoint |-> data.endpoint]
  ELSE IF "event" \in DOMAIN data /\ IsString(data.event, "endpoint")
          /\ IsString(data.event, "guild_id")
  THEN [found |-> TRUE, guild_id |-> data.event.guild_id, endpoint |-> data.event.endpoint]
  ELSE NoVoiceServerUpdate

\* the index of the first c in s, or Len(s) + 1
RECURSIVE IndexOf(_, _, _)
IndexOf(s, c, i) ==
  IF i > Len(s) THEN i ELSE IF s[i] = c THEN i ELSE IndexOf(s, c, i + 1)

\* String.prototype.split on a one-character separator
RECURSIVE split(_, _)
split(s, c) ==
  LET i == IndexOf(s, c, 1)
  IN  IF i > Len(s) THEN <<s>>
      ELSE <<SubSeq(s, 1, i - 1)>> \o split(SubSeq(s, i + 1, Len(s)), c)

\* s.replace(/\d+$/, '')
RECURSIVE StripTrailingDigits(_)
StripTrailingDigits(s) ==
  IF Len(s) > 0 /\ s[Len(s)] \in Digits
  THEN StripTrailingDigits(SubSeq(s, 1, Len(s) - 1))
  ELSE s

\* the region code that is undefined
NoRegion == <<>>

\* parseDiscordRegionFromEndpoint, lines 288-295
parseDiscordRegionFromEndpoint(endpoint) ==
  LET host == split(endpoint, ":")[1]
      parts == split(host, ".")
  IN  IF Len(parts) < 3 THEN NoRegion
      ELSE StripTrailingDigits(parts[1])

\* lines 91-92: the coordinate a region hint yields
HintLatLon(endpoint) ==
  LET region == parseDiscordRegionFromEndpoint(endpoint)
  IN  IF region # NoRegion THEN regionToLatLon(region) ELSE undefined

Tail3 == <<".", "d", ".", "m", ":", "4", "4", "3">>
EIndia == SIndia \o <<"1", "2">> \o Tail3
EJapan == SJapan \o Tail3
EIndiaUpper == <<"I", "N", "D", "I", "A", "7">> \o Tail3
EMars == SMars \o <<"1">> \o Tail3
EDigits == <<"1", "2", "3">> \o Tail3
ETwoParts == <<"a", ".", "b">>

Endpoints == {EIndia, EJapan, EIndiaUpper, EMars, EDigits, ETwoParts}

\* the guilds payloads arrive for
HintGuilds == {"g1", "g2"}

Payloads ==
  UNION {
    { [t |-> "VOICE_SERVER_UPDATE", d |-> [guild_id |-> StrVal(g), endpoint |-> StrVal(e)]],
      [guild_id |-> StrVal(g), endpoint |-> StrVal(e)],
      [event |-> [guild_id |-> StrVal(g), endpoint |-> StrVal(e)]],
      [t |-> "VOICE_STATE_UPDATE", d |-> [guild_id |-> StrVal(g), endpoint |-> StrVal(e)]],
      [t |-> "VOICE_SERVER_UPDATE", d |-> [endpoint |-> StrVal(e)]],
      [t |-> "VOICE_SERVER_UPDATE", d |-> [guild_id |-> StrVal(g), endpoint |-> NullVal]],
      [guild_id |-> StrVal(g)] } : g \in HintGuilds, e \in Endpoints }

(***************************************************************************)
(* State.                                                                  *)
(***************************************************************************)
VARIABLES
  nodes,            \* manager.nodes: the Node Records in registration order
  nodeLocations,    \* options.nodeLocations: Node Key -> coordinate or region
  getGuildLocation, \* whether options.getGuildLocation is given
  refreshIntervalMs,\* options.refreshIntervalMs (0 when absent)
  manager,          \* whether this.manager is set
  interval,         \* this.interval: "undefined", or the state of the timer it names
  leaked,           \* active timers that this.interval no longer names
  managerCreate,    \* what manager.create is: "original" or "patched"
  originalCreate,   \* this.originalCreate: "undefined", "original" or "patched"
  managerUpdateVoiceState,
  originalUpdateVoiceState,
  nodeGeo,          \* Map Node Key -> coordinate
  guildGeo,         \* Map guild id -> coordinate
  selfGeo,          \* coordinate of the bot host, or undefined
  nodeTasks,        \* bag of resolveNodeLocation calls in flight
  selfTasks,        \* number of getSelfLocation calls in flight
  resolverTasks,    \* number of getTargetForGuild calls awaiting getGuildLocation
  passes,           \* bag of refreshAllNodeLocations calls suspended at line 159
  rejections,       \* promises rejected with no handler so far (0 or 1)
  ret,              \* what the host call of the last step did and returned
  scheduler,        \* history: "running" from a load to the next unload, else "idle"
  ref               \* history: one earlier selection call, with the state it saw

vars ==
  <<nodes, nodeLocations, getGuildLocation, refreshIntervalMs, manager, interval,
    leaked, managerCreate, originalCreate, managerUpdateVoiceState,
    originalUpdateVoiceState, nodeGeo, guildGeo, selfGeo, nodeTasks, selfTasks,
    resolverTasks, passes, rejections, ret, scheduler, ref>>

options == <<nodeLocations, getGuildLocation, refreshIntervalMs>>
caches == <<nodeGeo, guildGeo, selfGeo>>
timers == <<interval, leaked>>
patches ==
  <<managerCreate, originalCreate, managerUpdateVoiceState, originalUpdateVoiceState>>
tasks == <<nodeTasks, selfTasks, resolverTasks, passes>>
history == <<scheduler, ref>>

\* no payload, and no answer of options.getGuildLocation
NoData == [none |-> TRUE]
NoAnswer == [kind |-> "none", v |-> undefined]

\* the value of ret after a step that is no host call
NoRet ==
  [op |-> "none", guild |-> "", pinned |-> NoId, patched |-> FALSE, ran |-> FALSE,
   loc |-> undefined, result |-> NoId, passed |-> NoId, origCalls |-> 0,
   threw |-> FALSE, nodeStarted |-> 0, selfStarted |-> 0, resolverStarted |-> 0,
   passStarted |-> 0, data |-> NoData, key |-> NoId, r1 |-> Rejected, r2 |-> Rejected,
   queried |-> 0, answer |-> NoAnswer]

NoRef ==
  [set |-> FALSE, guild |-> "", nodes |-> <<>>, nodeGeo |-> <<>>, guildGeo |-> <<>>,
   selfGeo |-> undefined, inFlight |-> FALSE, result |-> NoId]

Init ==
  /\ nodes = <<>>
  /\ nodeLocations = <<>>
  /\ getGuildLocation \in BOOLEAN
  /\ refreshIntervalMs \in {0, 60000}
  /\ manager = FALSE
  /\ interval = "undefined"
  /\ leaked = 0
  /\ managerCreate = "original"
  /\ originalCreate = "undefined"
  /\ managerUpdateVoiceState = "original"
  /\ originalUpdateVoiceState = "undefined"
  /\ nodeGeo = <<>>
  /\ guildGeo = <<>>
  /\ selfGeo = undefined
  /\ nodeTasks = EmptyBag
  /\ selfTasks = 0
  /\ resolverTasks = 0
  /\ passes = EmptyBag
  /\ rejections = 0
  /\ ret = NoRet
  /\ scheduler = "idle"
  /\ ref = NoRef

(***************************************************************************)
(* Map helpers.                                                            *)
(***************************************************************************)
MapSet(m, k, v) == [x \in DOMAIN m \cup {k} |-> IF x = k THEN v ELSE m[x]]
MapGet(m, k) == IF k \in DOMAIN m THEN m[k] ELSE undefined

\* mutant of resolveNodeLocation: line 181 is missing, the override is ignored
resolveNodeLocationNoOverride(n, overrides) ==
  [id |-> NodeKey(n), host |-> n.host, kind |-> "lookup", ll |-> undefined]

(***************************************************************************)
(* resolveNodeLocation, lines 178-185.  A call in flight is a task         *)
(* [id, host, kind, ll]: with an override at the time of the call the      *)
(* task already holds the override's normalized value (kind "override",    *)
(* no provider is asked); otherwise it awaits geoByHost (kind "lookup").   *)
(***************************************************************************)
resolveNodeLocation(n, overrides) ==
  LET id == NodeKey(n)
  IN  IF id \in DOMAIN overrides
      THEN [id |-> id, host |-> n.host, kind |-> "override", ll |-> normalizeLoc(overrides[id])]
      ELSE [id |-> id, host |-> n.host, kind |-> "lookup", ll |-> undefined]

\* the number of tasks in flight for a Node Key
KeyLoad(bag, k) ==
  LET ts == {t \in BagToSet(bag) : t.id = k}
      RECURSIVE Sum(_)
      Sum(S) == IF S = {} THEN 0
                ELSE LET t == CHOOSE x \in S : TRUE IN CopiesIn(t, bag) + Sum(S \ {t})
  IN  Sum(ts)

AddTask(bag, t) == bag (+) SetToBag({t})
RemoveTask(bag, t) == bag (-) SetToBag({t})

\* the number of elements of a bag
BagSize(bag) ==
  LET RECURSIVE Sum(_)
      Sum(S) == IF S = {} THEN 0
                ELSE LET t == CHOOSE x \in S : TRUE IN CopiesIn(t, bag) + Sum(S \ {t})
  IN  Sum(BagToSet(bag))

(***************************************************************************)
(* Selection.                                                              *)
(***************************************************************************)
\* a value that has a then method (what an async function returns)
Promise == [then |-> TRUE, value |-> undefined]
\* a value that has none
Plain(x) == [then |-> FALSE, value |-> x]

\* resolveSyncOrAsync, lines 378-381
resolveSyncOrAsync(v) == IF v.then THEN undefined ELSE v.value

\* mutant of getSelfLocationCached: line 225 is missing, no lookup is started
getSelfLocationNoFetch(sGeo) == [value |-> sGeo, selfStarted |-> 0]

\* getSelfLocationCached, lines 223-229: the value returned and the number
\* of getSelfLocation calls started
getSelfLocationCached(sGeo) ==
  [value |-> sGeo, selfStarted |-> IF sGeo = undefined THEN 1 ELSE 0]

\* getTargetForGuild, lines 210-218, up to its first suspension: what the
\* call returns to its caller (always a promise: the function is async) and
\* the background work it starts before returning
getTargetForGuild(guildId, gGeo, resolver, sGeo) ==
  IF guildId \in DOMAIN gGeo
  THEN [value |-> Promise, resolverStarted |-> 0, selfStarted |-> 0]
  ELSE IF resolver
  THEN [value |-> Promise, resolverStarted |-> 1, selfStarted |-> 0]
  ELSE [value |-> Promise, resolverStarted |-> 0,
        selfStarted |-> getSelfLocationCached(sGeo).selfStarted]

NoBest == [id |-> NoId, dist |-> -1]

\* mutant of Better: the later of two equally near nodes wins
BetterOrEqual(d, best) == best = NoBest \/ d <= best.dist

\* line 144
Better(d, best) == best = NoBest \/ d < best.dist

\* the loop of lines 138-145 from node i on
RECURSIVE BestLoop(_, _, _, _, _)
BestLoop(ns, geo, loc, i, best) ==
  IF i > Len(ns) THEN best
  ELSE LET id == NodeKey(ns[i])
       IN  IF id \notin DOMAIN geo THEN BestLoop(ns, geo, loc, i + 1, best)
           ELSE LET d == haversineKm(loc, geo[id])
                IN  BestLoop(ns, geo, loc, i + 1,
                             IF Better(d, best) THEN [id |-> id, dist |-> d] ELSE best)

\* mutant of FirstKey: the fallback is the node registered last
LastKey(ns) == NodeKey(ns[Len(ns)])

\* nodes[0]?.options.identifier ?? nodes[0]?.options.host
FirstKey(ns) == NodeKey(ns[1])

\* line 130: the coordinate distances are measured from
SelectionLoc(target, sGeo) ==
  IF resolveSyncOrAsync(target) # undefined
  THEN resolveSyncOrAsync(target)
  ELSE getSelfLocationCached(sGeo).value

\* mutant of pickBestNodeIdentifier: while a lookup is in flight the
\* comparison is skipped and the first node is returned
pickBestUnlessPending(m, ns, geo, sGeo, target) ==
  IF ~m \/ Len(ns) = 0 THEN NoId
  ELSE LET loc == SelectionLoc(target, sGeo)
       IN  IF loc = undefined \/ selfTasks > 0 \/ nodeTasks # EmptyBag THEN FirstKey(ns)
           ELSE LET best == BestLoop(ns, geo, loc, 1, NoBest)
                IN  IF best # NoBest THEN best.id ELSE FirstKey(ns)

\* mutant of pickBestNodeIdentifier: line 146 returns best?.id with no fallback
pickBestNoFallback(m, ns, geo, sGeo, target) ==
  IF ~m \/ Len(ns) = 0 THEN NoId
  ELSE LET loc == SelectionLoc(target, sGeo)
       IN  IF loc = undefined THEN FirstKey(ns)
           ELSE BestLoop(ns, geo, loc, 1, NoBest).id

\* pickBestNodeIdentifier, lines 124-147: the value returned (NoId for
\* undefined); target is what getTarget() returned
pickBestNodeIdentifier(m, ns, geo, sGeo, target) ==
  IF ~m \/ Len(ns) = 0 THEN NoId
  ELSE LET loc == SelectionLoc(target, sGeo)
       IN  IF loc = undefined THEN FirstKey(ns)
           ELSE LET best == BestLoop(ns, geo, loc, 1, NoBest)
                IN  IF best # NoBest THEN best.id ELSE FirstKey(ns)

\* lines 133-136: the resolutions started for the nodes with no cache entry
RECURSIVE MissTasks(_, _, _, _, _)
MissTasks(ns, geo, overrides, i, bag) ==
  IF i > Len(ns) THEN bag
  ELSE IF NodeKey(ns[i]) \in DOMAIN geo
  THEN MissTasks(ns, geo, overrides, i + 1, bag)
  ELSE MissTasks(ns, geo, overrides, i + 1, AddTask(bag, resolveNodeLocation(ns[i], overrides)))

\* the number of nodes of the pool with no cache entry
Misses(ns, geo) == Cardinality({i \in 1..Len(ns) : NodeKey(ns[i]) \notin DOMAIN geo})

(***************************************************************************)
(* The patched manager.create, lines 75-83, called for guild g with        *)
(* opts.nodeIdentifier = pinned (NoId when the caller gives none).         *)
(* outcome: everything the call does, as a record.                         *)
(***************************************************************************)
PatchedCreate(g, pinned) ==
  LET run == pinned = NoId
      \* pickBestNodeIdentifier returns at line 126 before calling getTarget
      reached == run /\ manager /\ Len(nodes) > 0
      tgt == getTargetForGuild(g, guildGeo, getGuildLocation, selfGeo)
      loc == IF reached THEN SelectionLoc(tgt.value, selfGeo) ELSE undefined
      selfByLoc == IF reached /\ resolveSyncOrAsync(tgt.value) = undefined
                   THEN getSelfLocationCached(selfGeo).selfStarted ELSE 0
      id == IF run THEN pickBestNodeIdentifier(manager, nodes, nodeGeo, selfGeo, tgt.value)
            ELSE NoId
      miss == reached /\ loc # undefined
      passed == IF run THEN id ELSE pinned
  IN  [ran |-> run,
       loc |-> loc,
       result |-> id,
       passed |-> passed,
       resolverStarted |-> IF reached THEN tgt.resolverStarted ELSE 0,
       selfStarted |-> IF reached THEN tgt.selfStarted + selfByLoc ELSE 0,
       nodeStarted |-> IF miss THEN Misses(nodes, nodeGeo) ELSE 0,
       newTasks |-> IF miss THEN MissTasks(nodes, nodeGeo, nodeLocations, 1, nodeTasks)
                    ELSE nodeTasks,
       \* line 82: with this.originalCreate the host's create it is called
       \* once; with this.originalCreate a patched create (load ran twice)
       \* the call re-enters lines 75-82 without end and the stack overflows
       origCalls |-> IF originalCreate = "original" THEN 1 ELSE 0,
       threw |-> originalCreate # "original"]

CreatePinned == {NoId, "eu"}

CreateCall(g, pinned) ==
  /\ IF managerCreate = "patched"
     THEN LET o == PatchedCreate(g, pinned)
          IN  /\ nodeTasks' = o.newTasks
              /\ selfTasks' = selfTasks + o.selfStarted
              /\ resolverTasks' = resolverTasks + o.resolverStarted
              /\ ret' = [NoRet EXCEPT !.op = "create", !.guild = g, !.pinned = pinned,
                           !.patched = TRUE, !.ran = o.ran, !.loc = o.loc,
                           !.result = o.result, !.passed = o.passed,
                           !.origCalls = o.origCalls, !.threw = o.threw,
                           !.nodeStarted = o.nodeStarted, !.selfStarted = o.selfStarted,
                           !.resolverStarted = o.resolverStarted]
     ELSE /\ UNCHANGED <<nodeTasks, selfTasks, resolverTasks>>
          /\ ret' = [NoRet EXCEPT !.op = "create", !.guild = g, !.pinned = pinned,
                       !.passed = pinned, !.origCalls = 1]
  /\ UNCHANGED <<nodes, options, manager, timers, patches, caches, passes, rejections,
                 scheduler>>

Create(g, pinned) == CreateCall(g, pinned) /\ UNCHANGED ref

\* a selection call that is kept, with the pool and the caches it saw, to be
\* compared with the calls that follow
CreateRef(g) ==
  /\ ~ref.set
  /\ managerCreate = "patched"
  /\ CreateCall(g, NoId)
  /\ ref' = [set |-> TRUE, guild |-> g, nodes |-> nodes, nodeGeo |-> nodeGeo,
             guildGeo |-> guildGeo, selfGeo |-> selfGeo, inFlight |-> (nodeTasks # EmptyBag \/ selfTasks > 0),
             result |-> ret'.result]

(***************************************************************************)
(* refreshAllNodeLocations, lines 152-172.  The loop runs without          *)
(* suspension over the nodes that have no override, starting one           *)
(* resolveNodeLocation per node (lines 163-169), and suspends at line 159  *)
(* on a node that has one, holding the normalized override.  A suspended   *)
(* pass is [i, id, ll]: the position of that node in manager.nodes, its    *)
(* key and the value line 160 will write.                                  *)
(***************************************************************************)
NoPass == [i |-> 0, id |-> NoId, ll |-> undefined]

RECURSIVE PassRun(_, _, _, _)
PassRun(ns, overrides, i, bag) ==
  IF i > Len(ns) THEN [tasks |-> bag, susp |-> NoPass]
  ELSE LET id == NodeKey(ns[i])
       IN  IF id \in DOMAIN overrides
           THEN [tasks |-> bag,
                 susp |-> [i |-> i, id |-> id, ll |-> normalizeLoc(overrides[id])]]
           ELSE PassRun(ns, overrides, i + 1, AddTask(bag, resolveNodeLocation(ns[i], overrides)))

\* a call of refreshAllNodeLocations up to its first suspension
StartPass ==
  LET r == PassRun(nodes, nodeLocations, 1, nodeTasks)
  IN  /\ nodeTasks' = r.tasks
      /\ passes' = IF r.susp = NoPass THEN passes ELSE AddTask(passes, r.susp)

\* a suspended pass resumes: line 160, then the loop goes on
PassResume(p) ==
  /\ p \in BagToSet(passes)
  /\ LET r == PassRun(nodes, nodeLocations, p.i + 1, nodeTasks)
     IN  /\ nodeTasks' = r.tasks
         /\ passes' = IF r.susp = NoPass THEN RemoveTask(passes, p)
                      ELSE AddTask(RemoveTask(passes, p), r.susp)
  /\ nodeGeo' = IF p.ll # undefined THEN MapSet(nodeGeo, p.id, p.ll) ELSE nodeGeo
  /\ ret' = NoRet
  /\ UNCHANGED <<nodes, options, manager, timers, patches, guildGeo, selfGeo,
                 selfTasks, resolverTasks, rejections, history>>

(***************************************************************************)
(* load, lines 62-105, and unload, lines 110-116.                          *)
(***************************************************************************)
\* mutant of TimerWanted: the test of line 67 is missing
TimerAlways(ms) == TRUE

\* line 67: this.options.refreshIntervalMs && this.options.refreshIntervalMs > 0
TimerWanted(ms) == ms # 0 /\ ms > 0

Load ==
  /\ manager' = TRUE
  /\ StartPass
  /\ IF TimerWanted(refreshIntervalMs)
     THEN /\ interval' = "active"
          /\ leaked' = IF interval = "active" THEN leaked + 1 ELSE leaked
     ELSE UNCHANGED timers
  /\ originalCreate' = managerCreate
  /\ managerCreate' = "patched"
  /\ originalUpdateVoiceState' = managerUpdateVoiceState
  /\ managerUpdateVoiceState' = "patched"
  /\ ret' = [NoRet EXCEPT !.op = "load", !.passStarted = 1]
  /\ scheduler' = "running"
  /\ UNCHANGED <<nodes, options, caches, selfTasks, resolverTasks, rejections, ref>>

\* mutant of Unload: the caches are emptied and the work in flight is dropped
UnloadClearing ==
  /\ interval' = IF interval = "active" THEN "cleared" ELSE interval
  /\ managerCreate' = IF manager /\ originalCreate # "undefined"
                      THEN originalCreate ELSE managerCreate
  /\ managerUpdateVoiceState' = IF manager /\ originalUpdateVoiceState # "undefined"
                                THEN originalUpdateVoiceState ELSE managerUpdateVoiceState
  /\ ret' = [NoRet EXCEPT !.op = "unload"]
  /\ scheduler' = "idle"
  /\ nodeGeo' = <<>> /\ guildGeo' = <<>> /\ selfGeo' = undefined
  /\ nodeTasks' = EmptyBag /\ selfTasks' = 0
  /\ UNCHANGED <<nodes, options, manager, leaked, originalCreate,
                 originalUpdateVoiceState, resolverTasks, passes, rejections, ref>>

Unload ==
  /\ interval' = IF interval = "active" THEN "cleared" ELSE interval
  /\ managerCreate' = IF manager /\ originalCreate # "undefined"
                      THEN originalCreate ELSE managerCreate
  /\ managerUpdateVoiceState' = IF manager /\ originalUpdateVoiceState # "undefined"
                                THEN originalUpdateVoiceState ELSE managerUpdateVoiceState
  /\ ret' = [NoRet EXCEPT !.op = "unload"]
  /\ scheduler' = "idle"
  /\ UNCHANGED <<nodes, options, manager, leaked, originalCreate,
                 originalUpdateVoiceState, caches, tasks, rejections, ref>>

\* the callback of setInterval, lines 68-70, fires for an active timer
Tick ==
  /\ interval = "active" \/ leaked > 0
  /\ StartPass
  /\ ret' = [NoRet EXCEPT !.op = "tick", !.passStarted = 1]
  /\ UNCHANGED <<nodes, options, manager, timers, patches, caches, selfTasks,
                 resolverTasks, rejections, history>>

(***************************************************************************)
(* Completion of background tasks.                                         *)
(***************************************************************************)
\* lines 135 and 165-167: the continuation of a resolveNodeLocation call
\* that found an override (line 181)
OverrideTaskDone(t) ==
  /\ t \in BagToSet(nodeTasks)
  /\ t.kind = "override"
  /\ nodeTasks' = RemoveTask(nodeTasks, t)
  /\ nodeGeo' = IF t.ll # undefined THEN MapSet(nodeGeo, t.id, t.ll) ELSE nodeGeo
  /\ ret' = NoRet
  /\ UNCHANGED <<nodes, options, manager, timers, patches, guildGeo, selfGeo,
                 selfTasks, resolverTasks, passes, rejections, history>>

\* the same for a call that awaited geoByHost (line 182), with the replies
\* of the two providers
\* mutant of LookupEnd: a lookup that fails ends the other lookups with it
LookupEndAborting(t, r1, r2) ==
  /\ t \in BagToSet(nodeTasks)
  /\ t.kind = "lookup"
  /\ LET ll == geoByHost(r1, r2).ll
     IN  /\ nodeGeo' = IF ll # undefined THEN MapSet(nodeGeo, t.id, ll) ELSE nodeGeo
         /\ nodeTasks' = IF ll # undefined THEN RemoveTask(nodeTasks, t) ELSE EmptyBag
  /\ UNCHANGED <<nodes, options, manager, timers, patches, guildGeo, selfGeo,
                 selfTasks, resolverTasks, passes, rejections, history>>

\* mutant of LookupEnd: a lookup that fails drops the entry of its key
LookupEndEvicting(t, r1, r2) ==
  /\ t \in BagToSet(nodeTasks)
  /\ t.kind = "lookup"
  /\ nodeTasks' = RemoveTask(nodeTasks, t)
  /\ LET ll == geoByHost(r1, r2).ll
     IN  nodeGeo' = IF ll # undefined THEN MapSet(nodeGeo, t.id, ll)
                    ELSE [k \in DOMAIN nodeGeo \ {t.id} |-> nodeGeo[k]]
  /\ UNCHANGED <<nodes, options, manager, timers, patches, guildGeo, selfGeo,
                 selfTasks, resolverTasks, passes, rejections, history>>

\* mutant of LookupEnd: a key that has an entry keeps it
LookupEndKeepingFirst(t, r1, r2) ==
  /\ t \in BagToSet(nodeTasks)
  /\ t.kind = "lookup"
  /\ nodeTasks' = RemoveTask(nodeTasks, t)
  /\ LET ll == geoByHost(r1, r2).ll
     IN  nodeGeo' = IF ll # undefined /\ t.id \notin DOMAIN nodeGeo
                    THEN MapSet(nodeGeo, t.id, ll) ELSE nodeGeo
  /\ UNCHANGED <<nodes, options, manager, timers, patches, guildGeo, selfGeo,
                 selfTasks, resolverTasks, passes, rejections, history>>

LookupEnd(t, r1, r2) ==
  /\ t \in BagToSet(nodeTasks)
  /\ t.kind = "lookup"
  /\ nodeTasks' = RemoveTask(nodeTasks, t)
  /\ LET ll == geoByHost(r1, r2).ll
     IN  nodeGeo' = IF ll # undefined THEN MapSet(nodeGeo, t.id, ll) ELSE nodeGeo
  /\ UNCHANGED <<nodes, options, manager, timers, patches, guildGeo, selfGeo,
                 selfTasks, resolverTasks, passes, rejections, history>>

LookupDone(t, r1, r2) == LookupEnd(t, r1, r2) /\ ret' = NoRet

\* the same step, with the replies and what geoByHost made of them kept
LookupSeen(t, r1, r2) ==
  /\ LookupEnd(t, r1, r2)
  /\ ret' = [NoRet EXCEPT !.op = "lookup", !.key = t.id, !.r1 = r1, !.r2 = r2,
               !.loc = geoByHost(r1, r2).ll, !.queried = geoByHost(r1, r2).queried,
               !.threw = geoByHost(r1, r2).threw]

\* line 226: the continuation of getSelfLocation assigns whatever it got
SelfEnd(r1, r2) ==
  /\ selfTasks > 0
  /\ selfTasks' = selfTasks - 1
  /\ selfGeo' = getSelfLocation(r1, r2).ll
  /\ UNCHANGED <<nodes, options, manager, timers, patches, nodeGeo, guildGeo,
                 nodeTasks, resolverTasks, passes, rejections, history>>

SelfDone(r1, r2) == SelfEnd(r1, r2) /\ ret' = NoRet

\* the same step, with the replies and what getSelfLocation made of them kept
SelfSeen(r1, r2) ==
  /\ SelfEnd(r1, r2)
  /\ ret' = [NoRet EXCEPT !.op = "self", !.r1 = r1, !.r2 = r2,
               !.loc = getSelfLocation(r1, r2).ll,
               !.queried = getSelfLocation(r1, r2).queried,
               !.threw = getSelfLocation(r1, r2).threw]

\* what options.getGuildLocation may settle with
ResolverOutcomes ==
  {[kind |-> "absent", v |-> undefined], [kind |-> "throws", v |-> undefined]}
    \cup {[kind |-> "value", v |-> x] : x \in {PParis, Region(SJapan), Region(SMars)}}

\* lines 214-217: getTargetForGuild resumes after the await
ResolverDone(out) ==
  /\ resolverTasks > 0
  /\ resolverTasks' = resolverTasks - 1
  /\ selfTasks' = IF out.kind = "absent"
                  THEN selfTasks + getSelfLocationCached(selfGeo).selfStarted
                  ELSE selfTasks
  \* nothing handles the promise getTargetForGuild returned (line 129)
  /\ rejections' = IF out.kind = "throws" THEN 1 ELSE rejections
  \* what the promise of getTargetForGuild settles with
  /\ ret' = [NoRet EXCEPT !.op = "target", !.answer = out,
               !.loc = CASE out.kind = "value" -> normalizeLoc(out.v)
                         [] out.kind = "absent" -> getSelfLocationCached(selfGeo).value
                         [] OTHER -> undefined,
               !.selfStarted = IF out.kind = "absent"
                               THEN getSelfLocationCached(selfGeo).selfStarted ELSE 0,
               !.threw = out.kind = "throws"]
  /\ UNCHANGED <<nodes, options, manager, timers, patches, caches, nodeTasks, passes,
                 history>>

(***************************************************************************)
(* The patched manager.updateVoiceState, lines 87-102.                     *)
(***************************************************************************)
TruthyId(val) == val.t = "string" /\ val.v # ""
TruthyEndpoint(val) == val.t = "string" /\ val.v # <<>>

\* mutant of CaptureHint: a guild that has an entry keeps it
CaptureHintOnce(data, gGeo) ==
  LET vs == extractVoiceServerUpdate(data)
  IN  IF vs.found /\ TruthyId(vs.guild_id) /\ TruthyEndpoint(vs.endpoint)
         /\ HintLatLon(vs.endpoint.v) # undefined /\ vs.guild_id.v \notin DOMAIN gGeo
      THEN MapSet(gGeo, vs.guild_id.v, HintLatLon(vs.endpoint.v))
      ELSE gGeo

\* lines 89-96: the guildGeo the payload leaves
CaptureHint(data, gGeo) ==
  LET vs == extractVoiceServerUpdate(data)
  IN  IF vs.found /\ TruthyId(vs.guild_id) /\ TruthyEndpoint(vs.endpoint)
         /\ HintLatLon(vs.endpoint.v) # undefined
      THEN MapSet(gGeo, vs.guild_id.v, HintLatLon(vs.endpoint.v))
      ELSE gGeo

UpdateVoiceState(data) ==
  /\ IF managerUpdateVoiceState = "patched"
     THEN /\ guildGeo' = CaptureHint(data, guildGeo)
          /\ ret' = [NoRet EXCEPT !.op = "updateVoiceState", !.patched = TRUE,
                       !.data = data,
                       !.origCalls = IF originalUpdateVoiceState = "original" THEN 1 ELSE 0,
                       !.threw = originalUpdateVoiceState # "original"]
     ELSE /\ UNCHANGED guildGeo
          /\ ret' = [NoRet EXCEPT !.op = "updateVoiceState", !.data = data,
                       !.origCalls = 1]
  /\ UNCHANGED <<nodes, options, manager, timers, patches, nodeGeo, selfGeo, tasks,
                 rejections, history>>

(***************************************************************************)
(* The host's registry and the caller's options.                           *)
(***************************************************************************)
AddNode(n) ==
  /\ \A i \in 1..Len(nodes) : nodes[i] # n
  /\ nodes' = Append(nodes, n)
  /\ ret' = NoRet
  /\ UNCHANGED <<options, manager, timers, patches, caches, tasks, rejections, history>>

RECURSIVE ShiftPasses(_, _)
ShiftPasses(bag, j) ==
  IF bag = EmptyBag THEN EmptyBag
  ELSE LET p == CHOOSE x \in BagToSet(bag) : TRUE
       IN  AddTask(ShiftPasses(RemoveTask(bag, p), j),
                   [p EXCEPT !.i = IF p.i >= j THEN p.i - 1 ELSE p.i])

\* removing the node at position j; an iterator of manager.nodes that had
\* reached position i >= j goes on with the entry that followed it
RemoveNode(j) ==
  /\ j \in 1..Len(nodes)
  /\ nodes' = SubSeq(nodes, 1, j - 1) \o SubSeq(nodes, j + 1, Len(nodes))
  /\ passes' = ShiftPasses(passes, j)
  /\ ret' = NoRet
  /\ UNCHANGED <<options, manager, timers, patches, caches, nodeTasks, selfTasks,
                 resolverTasks, rejections, history>>

SetOverride(k, v) ==
  /\ MapGet(nodeLocations, k) # v
  /\ nodeLocations' = MapSet(nodeLocations, k, v)
  /\ ret' = NoRet
  /\ UNCHANGED <<nodes, getGuildLocation, refreshIntervalMs, manager, timers, patches,
                 caches, tasks, rejections, history>>

(***************************************************************************)
(* Replies used where the shape of a failure does not matter: each         *)
(* provider either fails or answers with a well-formed body.               *)
(***************************************************************************)
Replies1(answers) == {Rejected} \cup {WhoOk(ll) : ll \in answers}
Replies2(answers) == {Rejected} \cup {ApiOk(ll) : ll \in answers}

HintIndia ==
  [t |-> "VOICE_SERVER_UPDATE", d |-> [guild_id |-> StrVal("g1"), endpoint |-> StrVal(EIndia)]]

(***************************************************************************)
(* Spec: the life cycle.  The host loads and unloads the plugin in any     *)
(* order and any number of times, the timer ticks, players are created     *)
(* with and without a pinned node and voice payloads arrive.  The          *)
(* registry holds up to two nodes; no override and no resolver is given.   *)
(***************************************************************************)
WithinBounds ==
  /\ \A k \in Keys : KeyLoad(nodeTasks, k) <= MaxNodeTasks
  /\ selfTasks <= MaxSelfTasks
  /\ leaked <= MaxLeaked

SpecNodes == {N1, N3}
SpecSelfAnswers == {PT}

InitSpec == Init /\ ~getGuildLocation

Next ==
  \/ Load /\ WithinBounds'
  \/ Unload
  \/ Tick /\ WithinBounds'
  \/ \E g \in Guilds, pinned \in CreatePinned : Create(g, pinned) /\ WithinBounds'
  \/ UpdateVoiceState(HintIndia)
  \/ \E t \in BagToSet(nodeTasks) :
       \E r1 \in Replies1(HostAnswers(t.host)), r2 \in Replies2(HostAnswers(t.host)) :
         LookupDone(t, r1, r2)
  \/ \E r1 \in Replies1(SpecSelfAnswers), r2 \in Replies2(SpecSelfAnswers) :
       SelfDone(r1, r2)
  \/ \E n \in SpecNodes : AddNode(n)

Spec == InitSpec /\ [][Next]_vars

(***************************************************************************)
(* SpecSel: selection.  The plugin is loaded once with no refresh          *)
(* interval; the registry takes any of the three nodes in any order and    *)
(* loses them again; the caches fill from lookups, self-lookups and a      *)
(* region hint while players are created.                                  *)
(***************************************************************************)
SelWithinBounds ==
  /\ \A k \in Keys : KeyLoad(nodeTasks, k) <= SelNodeTasks
  /\ selfTasks <= SelSelfTasks

InitSel == Init /\ ~getGuildLocation /\ refreshIntervalMs = 0

NextSel ==
  \/ ~manager /\ Load /\ SelWithinBounds'
  \/ \E g \in Guilds : Create(g, NoId) /\ SelWithinBounds'
  \/ UpdateVoiceState(HintIndia)
  \/ \E t \in BagToSet(nodeTasks) :
       \E r1 \in Replies1(HostAnswers(t.host)), r2 \in Replies2(HostAnswers(t.host)) :
         LookupDone(t, r1, r2)
  \/ \E r1 \in Replies1(SelfAnswers), r2 \in Replies2(SelfAnswers) : SelfDone(r1, r2)
  \/ \E n \in NodeUniverse : AddNode(n)
  \/ \E j \in 1..Len(nodes) : RemoveNode(j)

SpecSel == InitSel /\ [][NextSel]_vars

(***************************************************************************)
(* SpecOvr: overrides.  The plugin is loaded once with a refresh           *)
(* interval; the caller sets and changes the override of node "us" at any  *)
(* time while passes run, suspend and resume and players are created.      *)
(***************************************************************************)
OvrWithinBounds ==
  /\ \A k \in Keys : KeyLoad(nodeTasks, k) <= OvrNodeTasks
  /\ selfTasks <= OvrSelfTasks
  /\ BagSize(passes) <= OvrPasses

\* a region the table knows and one it does not
OvrValues == {Region(SDubai), Region(SMars)}

InitOvr == Init /\ ~getGuildLocation /\ refreshIntervalMs > 0

NextOvr ==
  \/ ~manager /\ Load /\ OvrWithinBounds'
  \/ Tick /\ OvrWithinBounds'
  \/ \E g \in Guilds : Create(g, NoId) /\ OvrWithinBounds'
  \/ \E p \in BagToSet(passes) : PassResume(p) /\ OvrWithinBounds'
  \/ \E t \in BagToSet(nodeTasks) : OverrideTaskDone(t)
  \/ \E t \in BagToSet(nodeTasks) :
       \E r1 \in Replies1(HostAnswers(t.host)), r2 \in Replies2(HostAnswers(t.host)) :
         LookupDone(t, r1, r2)
  \/ \E r1 \in Replies1(SpecSelfAnswers), r2 \in Replies2(SpecSelfAnswers) :
       SelfDone(r1, r2)
  \/ \E n \in SpecNodes : AddNode(n)
  \/ \E k \in OverrideKeys, v \in OvrValues : SetOverride(k, v)

SpecOvr == InitOvr /\ [][NextOvr]_vars

(***************************************************************************)
(* SpecDet: two selection calls.  As SpecSel with the nodes "eu" and "h3", *)
(* and one selection call, chosen freely, is kept in ref with the pool     *)
(* and the caches it saw.                                                  *)
(***************************************************************************)
DetWithinBounds ==
  /\ \A k \in Keys : KeyLoad(nodeTasks, k) <= DetNodeTasks
  /\ selfTasks <= DetSelfTasks

DetNodes == {N2, N3}
DetSelfAnswers == {PS2}

NextDet ==
  \/ ~manager /\ Load /\ DetWithinBounds'
  \/ \E g \in Guilds : Create(g, NoId) /\ DetWithinBounds'
  \/ \E g \in Guilds : CreateRef(g) /\ DetWithinBounds'
  \/ UpdateVoiceState(HintIndia)
  \/ \E t \in BagToSet(nodeTasks) :
       \E r1 \in Replies1(HostAnswers(t.host)), r2 \in Replies2(HostAnswers(t.host)) :
         LookupDone(t, r1, r2)
  \/ \E r1 \in Replies1(DetSelfAnswers), r2 \in Replies2(DetSelfAnswers) : SelfDone(r1, r2)
  \/ \E n \in DetNodes : AddNode(n)
  \/ \E j \in 1..Len(nodes) : RemoveNode(j)

SpecDet == InitSel /\ [][NextDet]_vars

(***************************************************************************)
(* SpecTgt: the target of a selection.  The plugin is loaded once, with or *)
(* without a getGuildLocation callback; the callback settles with nothing, *)
(* a coordinate, a region the table knows, one it does not, or fails.      *)
(***************************************************************************)
TgtWithinBounds ==
  /\ \A k \in Keys : KeyLoad(nodeTasks, k) <= TgtNodeTasks
  /\ selfTasks <= TgtSelfTasks
  /\ resolverTasks <= TgtResolverTasks

InitTgt == Init /\ refreshIntervalMs = 0

NextTgt ==
  \/ ~manager /\ Load /\ TgtWithinBounds'
  \/ \E g \in Guilds : Create(g, NoId) /\ TgtWithinBounds'
  \/ UpdateVoiceState(HintIndia)
  \/ \E out \in ResolverOutcomes : ResolverDone(out) /\ TgtWithinBounds'
  \/ \E t \in BagToSet(nodeTasks) :
       \E r1 \in Replies1(HostAnswers(t.host)), r2 \in Replies2(HostAnswers(t.host)) :
         LookupDone(t, r1, r2)
  \/ \E r1 \in Replies1(SpecSelfAnswers), r2 \in Replies2(SpecSelfAnswers) :
       SelfDone(r1, r2)
  \/ \E n \in SpecNodes : AddNode(n)

SpecTgt == InitTgt /\ [][NextTgt]_vars

(***************************************************************************)
(* SpecHint: voice payloads.  The host loads and unloads the plugin in any *)
(* order while payloads of every shape arrive for two guilds.              *)
(***************************************************************************)
InitHint == Init /\ ~getGuildLocation /\ refreshIntervalMs = 0

NextHint ==
  \/ Load
  \/ Unload
  \/ \E data \in Payloads : UpdateVoiceState(data)

SpecHint == InitHint /\ [][NextHint]_vars

(***************************************************************************)
(* SpecGeo: the providers.  The plugin is loaded once with no refresh      *)
(* interval; lookups of node hosts and of the bot host complete with every *)
(* reply of the two providers: a rejection, a refusal, a body of the wrong *)
(* shape, a body that is a primitive, a coordinate.                        *)
(***************************************************************************)
GeoWithinBounds ==
  /\ \A k \in Keys : KeyLoad(nodeTasks, k) <= GeoNodeTasks
  /\ selfTasks <= GeoSelfTasks

NextGeo ==
  \/ ~manager /\ Load /\ GeoWithinBounds'
  \/ \E g \in Guilds : Create(g, NoId) /\ GeoWithinBounds'
  \/ \E t \in BagToSet(nodeTasks) :
       \E r1 \in PrimaryReplies(HostAnswers(t.host)),
          r2 \in SecondaryReplies(HostAnswers(t.host)) :
         LookupSeen(t, r1, r2)
  \/ \E r1 \in PrimaryReplies(SpecSelfAnswers), r2 \in SecondaryReplies(SpecSelfAnswers) :
       SelfSeen(r1, r2)
  \/ \E n \in SpecNodes : AddNode(n)

SpecGeo == InitSel /\ [][NextGeo]_vars

(***************************************************************************)
(* SpecPass: refresh passes.  The plugin is loaded once with a refresh     *)
(* interval; passes start at the load and on ticks over a pool that grows  *)
(* and an override that is given and changed, and each lookup completes    *)
(* with every reply of the providers.                                      *)
(***************************************************************************)
PassWithinBounds ==
  /\ \A k \in Keys : KeyLoad(nodeTasks, k) <= PassNodeTasks
  /\ BagSize(passes) <= PassPasses

NextPass ==
  \/ ~manager /\ Load /\ PassWithinBounds'
  \/ Tick /\ PassWithinBounds'
  \/ \E p \in BagToSet(passes) : PassResume(p) /\ PassWithinBounds'
  \/ \E t \in BagToSet(nodeTasks) :
       \E r1 \in PrimaryReplies(HostAnswers(t.host)),
          r2 \in SecondaryReplies(HostAnswers(t.host)) :
         LookupSeen(t, r1, r2)
  \/ \E n \in SpecNodes : AddNode(n)
  \/ \E k \in OverrideKeys, v \in OvrValues : SetOverride(k, v)

SpecPass == InitOvr /\ [][NextPass]_vars

(***************************************************************************)
(* SpecLive: progress.  The plugin is loaded once, with or without a       *)
(* refresh interval; nodes register before or after the load, a region     *)
(* hint may arrive, and players keep being created.  Fairness: selection   *)
(* calls and ticks keep coming, every lookup in flight completes, and a    *)
(* lookup of a node's host that is tried again and again succeeds.  The    *)
(* lookup of the process's own address completes but need not succeed.     *)
(***************************************************************************)
LiveWithinBounds ==
  /\ \A k \in Keys : KeyLoad(nodeTasks, k) <= LiveNodeTasks
  /\ selfTasks <= LiveSelfTasks

LiveCreate == \E g \in Guilds : Create(g, NoId) /\ LiveWithinBounds'

LiveTick == Tick /\ LiveWithinBounds'

LiveLookup ==
  \E t \in BagToSet(nodeTasks) :
    \E r1 \in Replies1(HostAnswers(t.host)), r2 \in Replies2(HostAnswers(t.host)) :
      LookupDone(t, r1, r2)

LiveLookupOk(k) ==
  \E t \in BagToSet(nodeTasks) :
    /\ t.id = k
    /\ \E ll \in HostAnswers(t.host) : LookupDone(t, WhoOk(ll), Rejected)

LiveSelf ==
  \E r1 \in Replies1(SpecSelfAnswers), r2 \in Replies2(SpecSelfAnswers) : SelfDone(r1, r2)

NextLive ==
  \/ ~manager /\ Load /\ LiveWithinBounds'
  \/ LiveCreate
  \/ LiveTick
  \/ UpdateVoiceState(HintIndia)
  \/ LiveLookup
  \/ LiveSelf
  \/ \E n \in SpecNodes : AddNode(n)

LiveFairness ==
  /\ WF_vars(LiveCreate)
  /\ WF_vars(LiveTick)
  /\ WF_vars(LiveLookup)
  /\ WF_vars(LiveSelf)
  /\ \A k \in {NodeKey(n) : n \in SpecNodes} : SF_vars(LiveLookupOk(k))

SpecLive == InitSpec /\ [][NextLive]_vars /\ LiveFairness

(***************************************************************************)
(* SpecOrd: concurrent resolutions of one key.  The plugin is loaded once  *)
(* with a refresh interval over the nodes "us" and "eu"; ticks and         *)
(* selection misses start resolutions of a key while earlier ones are in   *)
(* flight, the primary provider locates the host of "us" at one of two     *)
(* places or fails with the secondary, and one selection call is kept in   *)
(* ref.                                                                    *)
(***************************************************************************)
OrdWithinBounds ==
  /\ \A k \in Keys : KeyLoad(nodeTasks, k) <= OrdNodeTasks
  /\ selfTasks <= OrdSelfTasks

OrdNodes == {N1, N2}

OrdAnswers(host) == IF host = "h1" THEN {PA, PC} ELSE HostAnswers(host)

NextOrd ==
  \/ ~manager /\ Load /\ OrdWithinBounds'
  \/ Tick /\ OrdWithinBounds'
  \/ \E g \in Guilds : Create(g, NoId) /\ OrdWithinBounds'
  \/ \E g \in Guilds : CreateRef(g) /\ OrdWithinBounds'
  \/ \E t \in BagToSet(nodeTasks) :
       \E r1 \in Replies1(OrdAnswers(t.host)) : LookupSeen(t, r1, Rejected)
  \/ \E r1 \in Replies1(SpecSelfAnswers), r2 \in Replies2(SpecSelfAnswers) :
       SelfDone(r1, r2)
  \/ \E n \in OrdNodes : AddNode(n)

SpecOrd == InitOvr /\ [][NextOrd]_vars

(***************************************************************************)
(* Properties.  In a state with ret.op = "create" the step before was the  *)
(* call of manager.create that ret describes; the call changes neither the *)
(* registry nor the caches, so nodes, nodeGeo, guildGeo and selfGeo are    *)
(* those the call saw.                                                     *)
(***************************************************************************)
Selected == ret.op = "create" /\ ret.patched /\ ret.ran

\* the positions of the pool whose Node Key has a cached coordinate
CachedIdx == {i \in 1..Len(nodes) : NodeKey(nodes[i]) \in DOMAIN nodeGeo}

DistFrom(loc, i) == haversineKm(loc, nodeGeo[NodeKey(nodes[i])])

\* position i is the nearest cached node to loc, the first of the nearest
NearestFirst(loc, i) ==
  /\ i \in CachedIdx
  /\ \A j \in CachedIdx :
       /\ DistFrom(loc, i) <= DistFrom(loc, j)
       /\ j < i => DistFrom(loc, j) > DistFrom(loc, i)

\* C1: when selection has a coordinate to measure from and at least one node
\* of the pool is cached, it returns the key of a cached node at minimal
\* haversine distance, the first such node in pool order; a node with no
\* cached coordinate is never returned.
C1_NearestCachedNode ==
  (Selected /\ ret.loc # undefined /\ CachedIdx # {}) =>
    /\ ret.result \in DOMAIN nodeGeo
    /\ \E i \in CachedIdx : ret.result = NodeKey(nodes[i]) /\ NearestFirst(ret.loc, i)

\* a selection over three nodes, the first one not cached, the other two at
\* the same minimal distance: the second is returned
C1_Witness ==
  /\ Selected
  /\ ret.loc = PS2
  /\ Len(nodes) = 3
  /\ CachedIdx = {2, 3}
  /\ DistFrom(PS2, 2) = DistFrom(PS2, 3)
  /\ ret.result = NodeKey(nodes[2])

\* C2 (as claimed): with the guild's coordinate captured and every node of
\* the pool cached, create without a pinned node passes on the node nearest
\* to the guild's coordinate.
C2_NearestToGuild ==
  (/\ ret.op = "create" /\ ret.patched /\ ret.pinned = NoId
   /\ ret.guild \in DOMAIN guildGeo
   /\ Len(nodes) > 0
   /\ CachedIdx = 1..Len(nodes)) =>
    \E i \in CachedIdx :
      ret.passed = NodeKey(nodes[i]) /\ NearestFirst(guildGeo[ret.guild], i)

\* C3: selection returns undefined exactly when the pool is empty, and for a
\* pool that is not empty the key of a node that is in the pool.
C3_UndefinedIffEmptyPool ==
  Selected =>
    /\ ret.result = NoId <=> Len(nodes) = 0
    /\ Len(nodes) > 0 => \E i \in 1..Len(nodes) : ret.result = NodeKey(nodes[i])

\* a selection with a coordinate to measure from, over a pool none of whose
\* nodes is cached while the cache still holds a node that left the pool
C3_Witness ==
  /\ Selected
  /\ ret.loc # undefined
  /\ Len(nodes) > 0
  /\ CachedIdx = {}
  /\ DOMAIN nodeGeo # {}
  /\ ret.result = NodeKey(nodes[1])

\* C4: for a pool that is not empty, selection returns the key of the node
\* registered first when it has no coordinate to measure from (no target,
\* no cached self-location) or when no node of the pool is cached.
C4_RegistrationOrderFallback ==
  (Selected /\ Len(nodes) > 0 /\ (ret.loc = undefined \/ CachedIdx = {})) =>
    ret.result = NodeKey(nodes[1])

\* a selection with nothing to measure from, over three nodes of which the
\* first is not cached and another is
C4_Witness ==
  /\ Selected
  /\ selfGeo = undefined
  /\ ret.loc = undefined
  /\ Len(nodes) = 3
  /\ 1 \notin CachedIdx
  /\ CachedIdx # {}
  /\ ret.result = NodeKey(nodes[1])

\* the pool and the caches are those the call kept in ref saw
SameAsRef ==
  /\ ref.set
  /\ ref.guild = ret.guild
  /\ ref.nodes = nodes
  /\ ref.nodeGeo = nodeGeo
  /\ ref.guildGeo = guildGeo
  /\ ref.selfGeo = selfGeo

Cold == nodeGeo = <<>> /\ guildGeo = <<>> /\ selfGeo = undefined

\* C6 (as claimed): a selection over a pool that is not empty, with no cache
\* entry anywhere, returns the key of the first node and starts the
\* resolution of at least one node, which is what could fill nodeGeo later.
C6_ColdSelectionResolvesNodes ==
  (Selected /\ Len(nodes) > 0 /\ Cold) =>
    ret.result = NodeKey(nodes[1]) /\ ret.nodeStarted >= 1

\* C6 (amended): such a selection returns the key of the first node in the
\* same step, starts a lookup of the bot host's location, and starts no
\* resolution of any node.
C6_ColdSelectionResolvesSelfOnly ==
  (Selected /\ Len(nodes) > 0 /\ Cold) =>
    /\ ret.result = NodeKey(nodes[1])
    /\ ret.selfStarted >= 1
    /\ ret.nodeStarted = 0

\* the first selection over three nodes, nothing cached and nothing in flight
C6_Witness ==
  /\ Selected
  /\ Cold
  /\ Len(nodes) = 3
  /\ nodeTasks = EmptyBag
  /\ selfTasks = ret.selfStarted
  /\ ret.result = NodeKey(nodes[1])

\* C7 (as claimed): once selfGeo holds a coordinate it holds that
\* coordinate in every later state.
C7_SelfGeoPermanent == [][selfGeo # undefined => selfGeo' = selfGeo]_vars

\* the resolutions and the suspended passes that a step starts or ends
StartedTasks == BagToSet(nodeTasks' (-) nodeTasks)
StartedPasses == BagToSet(passes' (-) passes)
EndedTasks == BagToSet(nodeTasks (-) nodeTasks')
EndedPasses == BagToSet(passes (-) passes')

\* C8: a resolution started (by a pass or by a selection miss) for a key
\* that has an override at that moment holds the override's normalized
\* coordinate and asks no provider; a resolution asks the providers only
\* for a key with no override; and the entry of a key in nodeGeo changes
\* only in a step that ends a resolution for that key, so an entry written
\* before the override was given stays until then.
C8_OverridePrecedence ==
  [][/\ \A t \in StartedTasks :
          IF t.id \in DOMAIN nodeLocations
          THEN t.kind = "override" /\ t.ll = normalizeLoc(nodeLocations[t.id])
          ELSE t.kind = "lookup"
     /\ \A p \in StartedPasses :
          p.id \in DOMAIN nodeLocations /\ p.ll = normalizeLoc(nodeLocations[p.id])
     /\ \A t \in EndedTasks :
          t.kind = "override" /\ t.ll # undefined => MapGet(nodeGeo', t.id) = t.ll
     /\ \A p \in EndedPasses : p.ll # undefined => MapGet(nodeGeo', p.id) = p.ll
     /\ \A k \in Keys :
          MapGet(nodeGeo', k) # MapGet(nodeGeo, k) =>
            \/ \E t \in EndedTasks : t.id = k
            \/ \E p \in EndedPasses : p.id = k
    ]_vars

\* node "us" has an entry from a lookup, an override given after it, and a
\* pass suspended with the override's coordinate that has not written yet
C8_Witness ==
  /\ "us" \in DOMAIN nodeLocations
  /\ MapGet(nodeGeo, "us") = PA
  /\ \E p \in BagToSet(passes) : p.id = "us" /\ p.ll = PDubai

\* C9 (as claimed): the patched create calls the original create exactly
\* once; with a pinned node it runs no selection, starts nothing and passes
\* the pinned node on; without one it passes on what selection returned.
C9_CreatePassesThrough ==
  (ret.op = "create" /\ ret.patched) =>
    /\ ret.origCalls = 1
    /\ ~ret.threw
    /\ ret.pinned # NoId =>
         /\ ~ret.ran
         /\ ret.nodeStarted = 0 /\ ret.selfStarted = 0 /\ ret.resolverStarted = 0
         /\ ret.passed = ret.pinned
    /\ ret.pinned = NoId => ret.passed = ret.result

\* C10 (as claimed): a timer tick fires only between a load and the next
\* unload, and every load starts a pass at once.
C10_NoTickAfterUnload ==
  /\ ret.op = "tick" => scheduler = "running"
  /\ ret.op = "load" => ret.passStarted = 1

\* C11 (as claimed): after an unload, whatever loads and unloads came
\* before it, manager.create and manager.updateVoiceState are the host's
\* own again: a create gets no node injected and a payload writes nothing.
C11_UnloadRestoresEntryPoints ==
  (scheduler = "idle" /\ ret.op \in {"create", "updateVoiceState"}) => ~ret.patched

\* C12: unload leaves nodeGeo, guildGeo and selfGeo as they are and drops
\* no work in flight; and after it a lookup in flight can still complete
\* with a provider's answer, which it writes into nodeGeo.
C12_UnloadKeepsCachesAndTasks ==
  [][/\ ret'.op = "unload" => caches' = caches /\ tasks' = tasks
     /\ scheduler = "idle" =>
          \A t \in BagToSet(nodeTasks) : \A ll \in HostAnswers(t.host) :
            ENABLED (LookupDone(t, WhoOk(ll), Rejected) /\ MapGet(nodeGeo', t.id) = ll)
    ]_vars

\* the state an unload leaves, with a cache entry and a lookup in flight
C12_Witness ==
  /\ ret.op = "unload"
  /\ nodeGeo # <<>>
  /\ \E t \in BagToSet(nodeTasks) : t.id \notin DOMAIN nodeGeo

\* C14: with refreshIntervalMs zero or absent no timer exists and no tick
\* fires; with a positive one a load leaves an active timer.
C14_TimerIffPositiveInterval ==
  /\ refreshIntervalMs = 0 => interval = "undefined" /\ leaked = 0 /\ ret.op # "tick"
  /\ (refreshIntervalMs > 0 /\ ret.op = "load") => interval = "active"

\* the plugin has just been loaded with no interval over a pool of two nodes
C14_Witness ==
  /\ refreshIntervalMs = 0
  /\ ret.op = "load"
  /\ Len(nodes) = 2
  /\ nodeTasks # EmptyBag

\* what a settled callback gives: a coordinate, or undefined (unresolved)
ResolverGives(answer) ==
  IF answer.kind = "value" THEN normalizeLoc(answer.v) ELSE undefined

\* C13 (as claimed): getTargetForGuild asks the callback only when the
\* guild has no cached coordinate and a callback is given; when the
\* callback's normalized answer is a coordinate the target is that
\* coordinate, and when it is unresolved (nothing returned, or a region the
\* table does not know) the target is the self-location, whose lookup is
\* started when it is not cached.
C13_TargetFallbackChain ==
  /\ (ret.op = "create" /\ ret.ran /\ manager /\ Len(nodes) > 0) =>
       ret.resolverStarted =
         IF ret.guild \notin DOMAIN guildGeo /\ getGuildLocation THEN 1 ELSE 0
  /\ (ret.op = "target" /\ ret.answer.kind \in {"absent", "value"}) =>
       IF ResolverGives(ret.answer) # undefined
       THEN ret.loc = ResolverGives(ret.answer) /\ ret.selfStarted = 0
       ELSE /\ ret.loc = selfGeo
            /\ ret.selfStarted = IF selfGeo = undefined THEN 1 ELSE 0

\* the part of a payload that carries the hint in each of the three shapes
Carried(data) ==
  IF "t" \in DOMAIN data /\ data.t = "VOICE_SERVER_UPDATE" /\ "d" \in DOMAIN data
  THEN data.d
  ELSE IF "event" \in DOMAIN data THEN data.event
  ELSE data

\* a payload of a known shape that names a guild and an endpoint
IsHint(data) ==
  /\ "t" \in DOMAIN data => data.t = "VOICE_SERVER_UPDATE"
  /\ IsString(Carried(data), "guild_id")
  /\ IsString(Carried(data), "endpoint")

\* the coordinate of the region each endpoint of the model names, if any
EndpointPoint(e) ==
  CASE e = EIndia -> PIndia
    [] e = EIndiaUpper -> PIndia
    [] e = EJapan -> PJapan
    [] OTHER -> undefined

\* C15: a payload that is a hint whose region the table knows sets the
\* guild's entry of guildGeo to that region's coordinate, whatever the entry
\* was; any other payload, and any step that is not a payload, leaves
\* guildGeo as it is.
C15_HintLastWriteWins ==
  [][IF ret'.op = "updateVoiceState" /\ ret'.patched /\ IsHint(ret'.data)
        /\ EndpointPoint(Carried(ret'.data).endpoint.v) # undefined
     THEN guildGeo' = MapSet(guildGeo, Carried(ret'.data).guild_id.v,
                             EndpointPoint(Carried(ret'.data).endpoint.v))
     ELSE guildGeo' = guildGeo
    ]_vars

\* a hint with an unknown region has arrived for a guild whose entry is
\* Japan, while the other guild's entry is India
C15_Witness ==
  /\ ret.op = "updateVoiceState"
  /\ ret.patched
  /\ ret.data = [guild_id |-> StrVal("g1"), endpoint |-> StrVal(EMars)]
  /\ MapGet(guildGeo, "g1") = PJapan
  /\ MapGet(guildGeo, "g2") = PIndia

\* C19 (as claimed): a payload that is no hint changes no cache, and every
\* payload reaches the host's own updateVoiceState exactly once.
C19_PayloadPassesThrough ==
  [][ret'.op = "updateVoiceState" =>
       /\ ret'.origCalls = 1
       /\ ~ret'.threw
       /\ nodeGeo' = nodeGeo /\ selfGeo' = selfGeo
       /\ ~IsHint(ret'.data) => guildGeo' = guildGeo
    ]_vars

\* C16: a key that has an entry in nodeGeo or in guildGeo has one after
\* every step (a pass, a selection, a hint, a completed or failed lookup,
\* an unload, a load), and the entry is a coordinate.
C16_EntriesNeverInvalidated ==
  [][/\ \A k \in DOMAIN nodeGeo : k \in DOMAIN nodeGeo' /\ nodeGeo'[k] # undefined
     /\ \A g \in DOMAIN guildGeo : g \in DOMAIN guildGeo' /\ guildGeo'[g] # undefined
    ]_vars

\* the plugin has just been loaded again with entries in both caches and
\* a new lookup in flight for a node that has an entry
C16_Witness ==
  /\ ret.op = "load"
  /\ guildGeo # <<>>
  /\ \E t \in BagToSet(nodeTasks) : t.id \in DOMAIN nodeGeo

\* a reply that is a well-formed success body of the first provider, of the
\* second provider
Ok1(r) == ~r.err /\ WhoShape(r.data)
Ok2(r) == ~r.err /\ ApiShape(r.data)

\* C17 (as claimed): a lookup asks the second provider exactly when the
\* reply of the first is no well-formed success body; it yields the
\* coordinate of the first well-formed success body, yields unresolved
\* exactly when neither reply is one, and never throws.
C17_PrimaryThenSecondary ==
  ret.op \in {"lookup", "self"} =>
    /\ ~ret.threw
    /\ ret.queried = IF Ok1(ret.r1) THEN 1 ELSE 2
    /\ ret.loc = IF Ok1(ret.r1)
                 THEN LL(ret.r1.data.latitude.v, ret.r1.data.longitude.v)
                 ELSE IF Ok2(ret.r2) THEN LL(ret.r2.data.lat.v, ret.r2.data.lon.v)
                 ELSE undefined

\* a pass that goes on from position i0 of the pool reaches every node up
\* to the first one that has an override: it starts a resolution for each
\* node before it and suspends on it
PassGoesOnFrom(i0) ==
  \A j \in (i0 + 1)..Len(nodes) :
    (\A m \in (i0 + 1)..(j - 1) : NodeKey(nodes[m]) \notin DOMAIN nodeLocations) =>
      IF NodeKey(nodes[j]) \in DOMAIN nodeLocations
      THEN \E q \in StartedPasses : q.i = j /\ q.id = NodeKey(nodes[j])
      ELSE KeyLoad(nodeTasks', NodeKey(nodes[j])) = KeyLoad(nodeTasks, NodeKey(nodes[j])) + 1

\* C18: a pass started by a load or a tick, or resumed after an override,
\* reaches every node of the pool; a lookup that fails or ends unresolved
\* ends alone, leaving every other resolution in flight, every suspended
\* pass and every cache entry as they are; a lookup that succeeds and an
\* override that normalizes to a coordinate write it under the node's key;
\* and no pass ends in a rejection.
C18_PassIsolatesFailures ==
  [][/\ ret'.op \in {"load", "tick"} => PassGoesOnFrom(0)
     /\ \A p \in EndedPasses :
          /\ PassGoesOnFrom(p.i)
          /\ p.ll # undefined => MapGet(nodeGeo', p.id) = p.ll
     /\ (ret'.op = "lookup" /\ ret'.loc = undefined) =>
          /\ \A k \in Keys : KeyLoad(nodeTasks', k) =
                               KeyLoad(nodeTasks, k) - (IF k = ret'.key THEN 1 ELSE 0)
          /\ passes' = passes
          /\ nodeGeo' = nodeGeo
     /\ (ret'.op = "lookup" /\ ret'.loc # undefined) =>
          /\ nodeGeo' = MapSet(nodeGeo, ret'.key, ret'.loc)
          /\ passes' = passes
     /\ rejections' = 0
    ]_vars

\* the lookup of "h3" has just ended in a TypeError while the lookup of
\* "us", started by the same pool's passes, is still in flight, and "us"
\* has a coordinate
C18_Witness ==
  /\ ret.op = "lookup"
  /\ ret.key = "h3"
  /\ ret.threw
  /\ Len(nodes) = 2
  /\ "h3" \notin DOMAIN nodeGeo
  /\ MapGet(nodeGeo, "us") = PA
  /\ KeyLoad(nodeTasks, "us") = 1

InPool(n) == \E j \in 1..Len(nodes) : nodes[j] = n

\* C20: once the plugin is loaded, every node of the pool whose host the
\* providers can locate eventually has an entry in nodeGeo under its key,
\* whatever the refresh interval.
C20_NodesEventuallyResolved ==
  \A n \in SpecNodes :
    (manager /\ InPool(n)) ~> (NodeKey(n) \in DOMAIN nodeGeo)

\* the timers that fire: the one this.interval names, and those an earlier
\* load created and nothing names any more
ActiveTimers == leaked + (IF interval = "active" THEN 1 ELSE 0)

\* C22 (as claimed): whatever loads and unloads were called, at most one
\* refresh timer is active, and after an unload none is.
C22_AtMostOneTimer ==
  /\ ActiveTimers <= 1
  /\ scheduler = "idle" => ActiveTimers = 0

\* C23 (as claimed): whatever the providers and the getGuildLocation
\* callback answer, no promise of the plugin ends rejected with nothing to
\* handle it, and a patched create does not throw and passes on the key of
\* a node of the pool or no key at all.
C23_NoFailureReachesHost ==
  /\ rejections = 0
  /\ (ret.op = "create" /\ ret.patched) =>
       /\ ~ret.threw
       /\ ret.passed \in {NoId} \cup {NodeKey(nodes[j]) : j \in 1..Len(nodes)}

\* C21: a resolution that completes with a coordinate writes it under its
\* key whatever else is in flight for that key, so that the entry is the
\* coordinate of the successful resolution that completed last; no other
\* step changes the entry; and a selection call measures with the entries
\* as they are when it is made.
C21_LastCompletionWins ==
  [][/\ \A k \in Keys :
          MapGet(nodeGeo', k) =
            IF ret'.op = "lookup" /\ ret'.key = k /\ ret'.loc # undefined
            THEN ret'.loc ELSE MapGet(nodeGeo, k)
     /\ (ret'.op = "create" /\ ret'.patched /\ ret'.ran /\ ret'.loc # undefined
           /\ CachedIdx # {}) =>
          \E i \in CachedIdx :
            ret'.result = NodeKey(nodes[i]) /\ NearestFirst(ret'.loc, i)
    ]_vars

\* the call kept in ref saw "us" at PA and chose it; a later resolution of
\* "us" completed with PC while another was in flight, and the selection
\* call just made over the same pool sees PC and chooses "eu"
C21_Witness ==
  /\ Selected
  /\ ref.set
  /\ ref.nodes = nodes
  /\ MapGet(ref.nodeGeo, "us") = PA
  /\ ref.result = "us"
  /\ MapGet(nodeGeo, "us") = PC
  /\ ret.result = "eu"
  /\ KeyLoad(nodeTasks, "us") >= 1

====
